---- MODULE Spec2Model ----
(***************************************************************************)
(* A model of reproject_celestial (spherical_intersect/reproject.py): the  *)
(* argument validation, the coordinate mapping of the pixel corners, the   *)
(* overlap-driven accumulation loop, and the serial / parallel / fallback  *)
(* execution of one reprojection request.                                  *)
(*                                                                         *)
(* Numbers.  Pixel coordinates are held in half-pixel units (the corners   *)
(* of a pixel grid sit at i - 0.5, i.e. at 2i - 1 half units), world       *)
(* coordinates in integer world units, areas in world units squared, and   *)
(* overlap fractions and sums of them in units of 1/FracUnit.  On the      *)
(* lattices the inputs are drawn from, all of this arithmetic is exact.    *)
(***************************************************************************)
EXTENDS Integers, Sequences, FiniteSets, TLC

\* ------------------------------------------------------------- bounds ----
\* Largest number of source columns (nx_in) of a request.
MaxCols == 3
\* Largest explicit process count, and largest cpu_count() of the machine.
MaxProc == 3
\* Largest number of KeyboardInterrupts delivered to the main process.
MaxInterrupts == 1

\* ------------------------------------------------- program constants ----
\* "- 0.5": pixel corners sit on half pixels; one pixel is HalfUnit half units.
HalfUnit == 2
\* "wcs_in.naxis != 2": the only supported dimensionality.
SupportedNaxis == 2

\* Denominator of the fixed-point representation of overlap fractions.
FracUnit == HalfUnit * HalfUnit

\* ------------------------------------------------------------ helpers ----
Min2(a, b) == IF a <= b THEN a ELSE b
Max2(a, b) == IF a >= b THEN a ELSE b
\* Python's min(a, b, c, d) and max(a, b, c, d) over a 4-element list.
Min4(q) == Min2(Min2(q[1], q[2]), Min2(q[3], q[4]))
Max4(q) == Max2(Max2(q[1], q[2]), Max2(q[3], q[4]))

\* The sum of f over the finite set S.
RECURSIVE SumOver(_, _)
SumOver(f, S) ==
    IF S = {} THEN 0
    ELSE LET x == CHOOSE y \in S : TRUE IN f[x] + SumOver(f, S \ {x})

RECURSIVE Gcd(_, _)
Gcd(a, b) == IF b = 0 THEN a ELSE Gcd(b, a % b)

\* Python float division a / b of numpy: a reduced fraction <<n, d>>, or
\* "nan" for 0/0 and "inf" for x/0 (numpy does not raise).
NumpyDivide(a, b) ==
    IF b = 0 THEN (IF a = 0 THEN <<"nan", 0, 0>> ELSE <<"inf", 0, 0>>)
    ELSE LET g == Gcd(IF a < 0 THEN -a ELSE a, b)
         IN  <<"num", a \div g, b \div g>>

\* Python's int(h / 2) for a coordinate of h half units: truncation toward 0.
PyIntHalf(h) == IF h >= 0 THEN h \div HalfUnit ELSE -((-h) \div HalfUnit)
\* floor(h / 2).
FloorHalf(h) == h \div HalfUnit

\* ---------------------------------------------------- Frame Bridge ----
\* A projection w has a reference world position (crx, cry), a pixel scale cd
\* (world units per half pixel) and a celestial frame.  Pixel position xh is
\* in half pixels; pixel 0's centre is xh = 0, its left edge xh = -1.
\* Mutant of line 111: pixel coordinates returned with origin 1 instead of 0.
wcs_world2pix_origin1(w, xw) == ((xw - w.crx) \div w.cd) - 1 + HalfUnit

wcs_pix2world_x(w, xh) == w.crx + w.cd * (xh + 1)
wcs_pix2world_y(w, yh) == w.cry + w.cd * (yh + 1)
wcs_world2pix_x(w, xw) == ((xw - w.crx) \div w.cd) - 1
wcs_world2pix_y(w, yw) == ((yw - w.cry) \div w.cd) - 1

\* The world coordinates of the origin of each celestial frame, in a common
\* system: converting between frames is a shift by the difference.
FrameOrigin(f) == IF f = "galactic" THEN 4 ELSE 0
convert_world_coordinates(xw, w_in, w_out) ==
    xw + FrameOrigin(w_in.frame) - FrameOrigin(w_out.frame)

\* np.arange(n + 1.) - 0.5 : corner k of a pixel grid, in half pixels.
CornerPos(k) == HalfUnit * k - 1

\* ------------------------------------------------ Overlap Primitive ----
\* Area of the intersection of two axis-aligned quadrilaterals given by the
\* longitudes and latitudes of their 4 vertices.
compute_overlap(ilon, ilat, olon, olat) ==
    LET w == Min2(Max4(ilon), Max4(olon)) - Max2(Min4(ilon), Min4(olon))
        h == Min2(Max4(ilat), Max4(olat)) - Max2(Min4(ilat), Min4(olat))
    IN  IF w > 0 /\ h > 0 THEN w * h ELSE 0

\* [a[j, i], a[j, i+1], a[j+1, i+1], a[j+1, i]][::-1]
Quad(a, j, i) == << a[<<j + 1, i>>], a[<<j + 1, i + 1>>], a[<<j, i + 1>>], a[<<j, i>>] >>

\* -------------------------------------------------------------- state ----
VARIABLES
    \* the arguments of reproject_celestial, and the machine's cpu_count()
    array, wcs_in, wcs_out, shape_out, parallel, method, cpus,
    \* the orchestrating process: its position, and nproc
    pc, nproc,
    \* the corner mapping computed by lines 83-111
    xp_inout, yp_inout, xw_in, yw_in, xw_out, yw_out,
    \* the accumulators of the process (array_new, weights), the number of
    \* source pixels the legacy loop has processed, and what the last
    \* processed pixel added to array_new in total and to which pixels
    array_new, weights, lpos, added, touched,
    \* the pool (None, or its state), its worker processes, the AsyncResults
    \* of the dispatched tasks, the number of results already fetched by
    \* get(), and the exception in flight through the finally block
    pool, procs, results, fetched, exc,
    \* the outcome: the returned pair, the raised exception, the number of
    \* warnings logged, and counts of what has been invoked so far
    ret, raised, warned, calls, interrupts

inputs  == <<array, wcs_in, wcs_out, shape_out, parallel, method>>
mapping == <<xp_inout, yp_inout, xw_in, yw_in, xw_out, yw_out>>
accum   == <<array_new, weights>>
legacy  == <<lpos, added, touched>>
workers == <<pool, procs, results, fetched>>
outcome == <<ret, raised, warned>>
vars    == <<inputs, cpus, pc, nproc, mapping, accum, legacy, workers, exc,
             outcome, calls, interrupts>>

\* ny_in, nx_in = array.shape ; ny_out, nx_out = shape_out
ny_in  == array.shape[1]
nx_in  == array.shape[2]
ny_out == shape_out[1]
nx_out == shape_out[2]

SrcCorners == (0 .. ny_in) \X (0 .. nx_in)
DstCorners == (0 .. ny_out) \X (0 .. nx_out)
DestIdx    == (0 .. ny_out - 1) \X (0 .. nx_out - 1)

\* np.zeros(shape_out)
Zeros == [d \in DestIdx |-> 0]
ZeroAcc == [array_new |-> Zeros, weights |-> Zeros]

\* --------------------------------------------------- Coordinate Mapper ----
\* xw_in, yw_in = wcs_in.wcs_pix2world(xp_in, yp_in, 0), then converted to the
\* frame of wcs_out by convert_world_coordinates.
MapXwIn == [c \in SrcCorners |->
              convert_world_coordinates(wcs_pix2world_x(wcs_in, CornerPos(c[2])), wcs_in, wcs_out)]
MapYwIn == [c \in SrcCorners |->
              convert_world_coordinates(wcs_pix2world_y(wcs_in, CornerPos(c[1])), wcs_in, wcs_out)]
\* xw_out, yw_out = wcs_out.wcs_pix2world(xp_out, yp_out, 0)
MapXwOut == [c \in DstCorners |-> wcs_pix2world_x(wcs_out, CornerPos(c[2]))]
MapYwOut == [c \in DstCorners |-> wcs_pix2world_y(wcs_out, CornerPos(c[1]))]
\* xp_inout, yp_inout = wcs_out.wcs_world2pix(xw_in, yw_in, 0)
MapXpInout == [c \in SrcCorners |-> wcs_world2pix_x(wcs_out, MapXwIn[c])]
MapYpInout == [c \in SrcCorners |-> wcs_world2pix_y(wcs_out, MapYwIn[c])]

\* --------------------------------------------------- Resampling Kernel ----
\* Lines 126-129: xmin = int(min(corners) + 0.5), xmax = int(max(corners) + 0.5)
\* and likewise for y, before clipping.
LegacyBounds(j, i) ==
    [xmin |-> PyIntHalf(Min4(Quad(xp_inout, j, i)) + 1),
     xmax |-> PyIntHalf(Max4(Quad(xp_inout, j, i)) + 1),
     ymin |-> PyIntHalf(Min4(Quad(yp_inout, j, i)) + 1),
     ymax |-> PyIntHalf(Max4(Quad(yp_inout, j, i)) + 1)]

\* The bounds of the compiled kernel: floor(min corner + 0.5) to
\* floor(max corner + 0.5).
SliceBounds(j, i) ==
    [xmin |-> FloorHalf(Min4(Quad(xp_inout, j, i)) + 1),
     xmax |-> FloorHalf(Max4(Quad(xp_inout, j, i)) + 1),
     ymin |-> FloorHalf(Min4(Quad(yp_inout, j, i)) + 1),
     ymax |-> FloorHalf(Max4(Quad(yp_inout, j, i)) + 1)]

\* Lines 136-139: the bounds clipped to the destination grid.
ClipBounds(b) ==
    [xmin |-> Max2(0, b.xmin), xmax |-> Min2(nx_out - 1, b.xmax),
     ymin |-> Max2(0, b.ymin), ymax |-> Min2(ny_out - 1, b.ymax)]

\* for ii in range(xmin, xmax+1): for jj in range(ymin, ymax+1)
Candidates(b) == {d \in DestIdx : b.ymin <= d[1] /\ d[1] <= b.ymax
                                  /\ b.xmin <= d[2] /\ d[2] <= b.xmax}

\* Lines 152-153: the overlap of source pixel (j, i) with destination pixel d,
\* and the destination pixel's overlap with itself.
Overlap(j, i, d) ==
    compute_overlap(Quad(xw_in, j, i), Quad(yw_in, j, i),
                    Quad(xw_out, d[1], d[2]), Quad(yw_out, d[1], d[2]))
Original(d) ==
    compute_overlap(Quad(xw_out, d[1], d[2]), Quad(yw_out, d[1], d[2]),
                    Quad(xw_out, d[1], d[2]), Quad(yw_out, d[1], d[2]))

\* Mutant of line 154: the overlap is not divided by the area of the
\* destination pixel.
FluxTermNotNormalized(j, i, d) == array.data[<<j, i>>] * Overlap(j, i, d) * FracUnit

\* Line 155: overlap / original, in units of 1/FracUnit.
WeightTerm(j, i, d) == (Overlap(j, i, d) * FracUnit) \div Original(d)
\* Line 154: array[j, i] * overlap / original, in units of 1/FracUnit.
FluxTerm(j, i, d) == (array.data[<<j, i>>] * Overlap(j, i, d) * FracUnit) \div Original(d)

\* Lines 141-155: the updates of the accumulators made for source pixel (j, i)
\* whose candidate destination pixels are cand.
AddPixel(acc, j, i, cand) ==
    [array_new |-> [d \in DestIdx |->
                      acc.array_new[d] + (IF d \in cand THEN FluxTerm(j, i, d) ELSE 0)],
     weights   |-> [d \in DestIdx |->
                      acc.weights[d] + (IF d \in cand THEN WeightTerm(j, i, d) ELSE 0)]]

\* One iteration of the loops of lines 119-155.
LegacyAddPixel(acc, j, i) == AddPixel(acc, j, i, Candidates(ClipBounds(LegacyBounds(j, i))))

\* One source pixel of the compiled kernel.
SliceAddPixel(acc, j, i) == AddPixel(acc, j, i, Candidates(ClipBounds(SliceBounds(j, i))))

\* The source pixels are walked column by column (i outer, j inner): the
\* pos-th pixel is (j, i) = (pos % ny_in, pos \div ny_in).
RECURSIVE SliceLoop(_, _, _)
SliceLoop(acc, pos, stop) ==
    IF pos >= stop THEN acc
    ELSE SliceLoop(SliceAddPixel(acc, pos % ny_in, pos \div ny_in), pos + 1, stop)

\* _reproject_slice_cython(startx, endx, 0, ny_in, ...): the accumulator pair
\* holding the contributions of the source columns startx .. endx-1.
reproject_slice_cython(startx, endx) == SliceLoop(ZeroAcc, startx * ny_in, endx * ny_in)

\* Mutant of the normalization: pixels without weight are set to 0.
NormalizeZeroFill(a, w) ==
    [d \in DestIdx |-> IF w[d] = 0 THEN <<"num", 0, 1>> ELSE NumpyDivide(a[d], w[d])]

\* array_new / weights, elementwise.
Normalize(a, w) == [d \in DestIdx |-> NumpyDivide(a[d], w[d])]

\* sum([...]) of a list of arrays: 0 + r1 + r2 + ... ; of no arrays, the int 0.
RECURSIVE SumArrays(_, _)
SumArrays(rs, field) ==
    IF rs = <<>> THEN Zeros
    ELSE LET rest == SumArrays(Tail(rs), field)
             r    == reproject_slice_cython(Head(rs).start, Head(rs).end)
         IN  [d \in DestIdx |-> (IF field = 0 THEN r.array_new[d] ELSE r.weights[d]) + rest[d]]

\* ------------------------------------------------------------- inputs ----
\* A Python value given as the parallel argument: its type and, for a bool
\* or an int, its value (True = 1, False = 0).
PyBool(b) == [type |-> "bool", val |-> IF b THEN 1 ELSE 0]
PyInt(n)  == [type |-> "int", val |-> n]
ParallelArgs ==
    {PyBool(TRUE), PyBool(FALSE), [type |-> "str", val |-> 0], [type |-> "float", val |-> 2]}
    \cup {PyInt(n) : n \in -1 .. MaxProc}

Methods == {"c", "legacy", "python"}

\* The destination projection: 2 world units per half pixel, so that source
\* pixels of half, once and twice the size of a destination pixel exist.
OutWcs == [naxis |-> 2, crx |-> 8, cry |-> 8, cd |-> 2, frame |-> "icrs"]

\* A source projection.
Wcs(naxis, crx, cry, cd, frame) ==
    [naxis |-> naxis, crx |-> crx, cry |-> cry, cd |-> cd, frame |-> frame]

\* The source images: ny rows and nx columns whose pixel (j, i) holds
\* 1 + i + 2j.
Image(ny, nx) ==
    [shape |-> <<ny, nx>>,
     data  |-> [p \in (0 .. ny - 1) \X (0 .. nx - 1) |-> 1 + p[2] + 2 * p[1]]]

\* The requests of the execution model, each with 0 .. MaxCols source columns:
\* the grid of the destination itself; a grid shifted left by a pixel and a
\* half, whose first column lies outside the destination and whose second
\* lies partly inside; pixels of half the size in another frame; a
\* 3-dimensional projection.
Scenes ==
    { [ny |-> 2, wcs |-> Wcs(2, 8, 8, 2, "icrs"),      shape |-> <<2, 2>>],
      [ny |-> 1, wcs |-> Wcs(2, 2, 8, 2, "icrs"),      shape |-> <<1, 2>>],
      [ny |-> 2, wcs |-> Wcs(2, 10, 6, 1, "galactic"), shape |-> <<1, 2>>],
      [ny |-> 1, wcs |-> Wcs(3, 8, 8, 2, "icrs"),      shape |-> <<1, 2>>] }

\* The requests of the kernel model: every 2-dimensional source projection on
\* the half-pixel lattice around the destination, every image of 1 or 2 rows
\* and 0 .. MaxCols columns, and three destination shapes.
KernelWcs ==
    {Wcs(2, 2 * a, 2 * b, cd, f) :
        a \in -1 .. 6, b \in 2 .. 5, cd \in {1, 2, 4}, f \in {"icrs", "galactic"}}
KernelShapes == {<<1, 2>>, <<2, 2>>, <<2, 1>>}

NoneProc == [isNone |-> TRUE, n |-> 0]
Procs(n) == [isNone |-> FALSE, n |-> n]

NoCalls == [bridge |-> 0, convert |-> 0, kernel |-> 0, serial |-> 0, pools |-> 0,
            cpu_count |-> 0]

InitState ==
    /\ pc = "validate"
    /\ nproc = NoneProc
    /\ cpus = 1
    /\ xp_inout = <<>> /\ yp_inout = <<>> /\ xw_in = <<>> /\ yw_in = <<>>
    /\ xw_out = <<>> /\ yw_out = <<>>
    /\ array_new = <<>> /\ weights = <<>>
    /\ lpos = 0 /\ added = 0 /\ touched = {}
    /\ pool = "None" /\ procs = <<>> /\ results = <<>> /\ fetched = 0
    /\ exc = "None"
    /\ ret = <<>> /\ raised = "None" /\ warned = 0
    /\ calls = NoCalls
    /\ interrupts = <<>>

Init ==
    /\ \E sc \in Scenes, nx \in 0 .. MaxCols :
          /\ array = Image(sc.ny, nx)
          /\ wcs_in = sc.wcs
          /\ shape_out = sc.shape
    /\ wcs_out = OutWcs
    /\ parallel \in ParallelArgs
    /\ method \in Methods
    /\ InitState

\* The requests of the kernel model run the loops of lines 119-155.
InitKernel ==
    /\ array \in {Image(ny, nx) : ny \in 1 .. 2, nx \in 0 .. MaxCols}
    /\ wcs_in \in KernelWcs
    /\ shape_out \in KernelShapes
    /\ wcs_out = OutWcs
    /\ parallel \in {PyBool(TRUE), PyInt(1)}
    /\ method = "legacy"
    /\ InitState

\* ------------------------------------------- reproject_celestial ----
Terminal == {"Done", "Error", "Cancelled"}

\* raise: the request ends with exception e propagated to the caller.
Raise(e) ==
    /\ raised' = e
    /\ pc' = IF e = "KeyboardInterrupt" THEN "Cancelled" ELSE "Error"

\* Mutant of line 67: the number of CPUs is read when the flag is checked.
ValidatedNprocEager ==
    IF parallel.type = "int" THEN Procs(parallel.val)
    ELSE IF parallel.val = 1 THEN Procs(cpus) ELSE Procs(1)

\* Lines 55-67: the check of the parallel flag, and nproc.
ValidatedNproc ==
    IF parallel.type = "int" THEN Procs(parallel.val)
    ELSE IF parallel.val = 1 THEN NoneProc ELSE Procs(1)

\* Mutant of line 61: only negative counts are rejected.
ValidateAcceptsZero ==
    /\ pc = "validate"
    /\ \/ /\ parallel.type # "bool" /\ parallel.type # "int"
          /\ Raise("TypeError")
          /\ UNCHANGED nproc
       \/ /\ parallel.type = "int" /\ parallel.val < 0
          /\ Raise("ValueError: nproc")
          /\ UNCHANGED nproc
       \/ /\ parallel.type = "bool" \/ (parallel.type = "int" /\ parallel.val >= 0)
          /\ nproc' = ValidatedNproc
          /\ pc' = "naxis"
          /\ UNCHANGED raised
    /\ UNCHANGED <<inputs, cpus, mapping, accum, legacy, workers, exc, ret, warned,
                   calls, interrupts>>

Validate ==
    /\ pc = "validate"
    /\ \/ /\ parallel.type # "bool" /\ parallel.type # "int"
          /\ Raise("TypeError")
          /\ UNCHANGED nproc
       \/ /\ parallel.type = "int" /\ parallel.val <= 0
          /\ Raise("ValueError: nproc")
          /\ UNCHANGED nproc
       \/ /\ parallel.type = "bool" \/ (parallel.type = "int" /\ parallel.val > 0)
          /\ nproc' = ValidatedNproc
          /\ pc' = "naxis"
          /\ UNCHANGED raised
    /\ UNCHANGED <<inputs, cpus, mapping, accum, legacy, workers, exc, ret, warned,
                   calls, interrupts>>

\* Lines 71-75: array.astype(float), then the check of the dimensionality.
CheckNaxis ==
    /\ pc = "naxis"
    /\ \/ /\ wcs_in.naxis # SupportedNaxis
          /\ Raise("NotImplementedError")
       \/ /\ wcs_in.naxis = SupportedNaxis
          /\ pc' = "mapper"
          /\ UNCHANGED raised
    /\ UNCHANGED <<inputs, cpus, nproc, mapping, accum, legacy, workers, exc, ret,
                   warned, calls, interrupts>>

\* Lines 83-111: the corner grids of both images in world coordinates and the
\* source corners in the pixel space of the destination: two wcs_pix2world
\* calls, one convert_world_coordinates call, one wcs_world2pix call.
Mapper ==
    /\ pc = "mapper"
    /\ xw_in' = MapXwIn /\ yw_in' = MapYwIn
    /\ xw_out' = MapXwOut /\ yw_out' = MapYwOut
    /\ xp_inout' = MapXpInout /\ yp_inout' = MapYpInout
    /\ calls' = [calls EXCEPT !.bridge = @ + 3, !.convert = @ + 1]
    /\ pc' = "select"
    /\ UNCHANGED <<inputs, cpus, nproc, accum, legacy, workers, exc, outcome, interrupts>>

\* Mutant of lines 176 and 223: the method is not looked at, so that an
\* unrecognized method runs the compiled implementation.
SelectIgnoresMethod ==
    /\ pc = "select"
    /\ \/ /\ method = "legacy"
          /\ array_new' = Zeros /\ weights' = Zeros
          /\ pc' = "legacy_loop"
       \/ /\ method # "legacy" /\ ~nproc.isNone /\ nproc.n = 1
          /\ pc' = "serial"
          /\ UNCHANGED accum
       \/ /\ method # "legacy" /\ (nproc.isNone \/ nproc.n > 1)
          /\ pc' = "par_resolve"
          /\ UNCHANGED accum
    /\ UNCHANGED <<inputs, cpus, nproc, mapping, legacy, workers, exc, outcome,
                   calls, interrupts>>

\* Lines 113, 176, 223 and 235: the choice of the implementation.
Select ==
    /\ pc = "select"
    /\ \/ /\ method = "legacy"
          /\ array_new' = Zeros /\ weights' = Zeros
          /\ pc' = "legacy_loop"
          /\ UNCHANGED raised
       \/ /\ method = "c" /\ ~nproc.isNone /\ nproc.n = 1
          /\ pc' = "serial"
          /\ UNCHANGED <<accum, raised>>
       \/ /\ method = "c" /\ (nproc.isNone \/ nproc.n > 1)
          /\ pc' = "par_resolve"
          /\ UNCHANGED <<accum, raised>>
       \/ \* line 235 is reached when no branch above has returned
          /\ method # "legacy"
          /\ ~(method = "c" /\ ~nproc.isNone /\ nproc.n = 1)
          /\ ~(method = "c" /\ (nproc.isNone \/ nproc.n > 1))
          /\ Raise("ValueError: method")
          /\ UNCHANGED accum
    /\ UNCHANGED <<inputs, cpus, nproc, mapping, legacy, workers, exc, ret, warned,
                   calls, interrupts>>

\* Lines 119-155: one iteration of the loops over the source pixels.
LegacyStep ==
    /\ pc = "legacy_loop"
    /\ lpos < nx_in * ny_in
    /\ LET j   == lpos % ny_in
           i   == lpos \div ny_in
           acc == LegacyAddPixel([array_new |-> array_new, weights |-> weights], j, i)
       IN  /\ array_new' = acc.array_new
           /\ weights' = acc.weights
           /\ touched' = Candidates(ClipBounds(LegacyBounds(j, i)))
    /\ lpos' = lpos + 1
    /\ added' = SumOver(array_new', DestIdx) - SumOver(array_new, DestIdx)
    /\ UNCHANGED <<inputs, cpus, pc, nproc, mapping, workers, exc, outcome, calls,
                   interrupts>>

\* Lines 157-159: array_new /= weights ; return array_new, weights
LegacyReturn ==
    /\ pc = "legacy_loop"
    /\ lpos = nx_in * ny_in
    /\ ret' = <<Normalize(array_new, weights), weights>>
    /\ pc' = "Done"
    /\ UNCHANGED <<inputs, cpus, nproc, mapping, accum, legacy, workers, exc, raised,
                   warned, calls, interrupts>>

\* Mutant of line 233: a failure of the serial implementation called as the
\* fallback is handled like a failure of the parallel one, by falling back
\* again.
serial_impl_retried ==
    /\ pc \in {"serial", "fallback_serial"}
    /\ \/ /\ array_new' = reproject_slice_cython(0, nx_in).array_new
          /\ weights' = reproject_slice_cython(0, nx_in).weights
          /\ ret' = <<Normalize(array_new', weights'), weights'>>
          /\ pc' = "Done"
          /\ UNCHANGED raised
       \/ /\ pc = "serial"
          /\ Raise("Exception: serial")
          /\ UNCHANGED <<accum, ret>>
       \/ /\ pc = "fallback_serial"
          /\ pc' = "fallback_warn"
          /\ UNCHANGED <<accum, ret, raised>>
    /\ calls' = [calls EXCEPT !.kernel = @ + 1, !.serial = @ + 1]
    /\ UNCHANGED <<inputs, cpus, nproc, mapping, legacy, workers, exc, warned, interrupts>>

\* Lines 169-174, called from line 177 or from line 233: one kernel call over
\* all the columns, which returns or raises.
serial_impl ==
    /\ pc \in {"serial", "fallback_serial"}
    /\ \/ /\ array_new' = reproject_slice_cython(0, nx_in).array_new
          /\ weights' = reproject_slice_cython(0, nx_in).weights
          /\ ret' = <<Normalize(array_new', weights'), weights'>>
          /\ pc' = "Done"
          /\ UNCHANGED raised
       \/ /\ Raise("Exception: serial")
          /\ UNCHANGED <<accum, ret>>
    /\ calls' = [calls EXCEPT !.kernel = @ + 1, !.serial = @ + 1]
    /\ UNCHANGED <<inputs, cpus, nproc, mapping, legacy, workers, exc, warned, interrupts>>

\* ------------------------------------------------------ parallel_impl ----
\* Mutants of the partition: a start rounded up instead of down, and an end
\* that forgets that the last task takes the remainder.
PartitionStartCeil(i, n) == ((nx_in + n - 1) \div n) * i
PartitionEndNoRemainder(i, n) == (nx_in \div n) * (i + 1)

\* Lines 197-198: the columns [start, end) of the i-th of n tasks, i = 0 .. n-1.
PartitionStart(i, n) == (nx_in \div n) * i
PartitionEnd(i, n) == IF i = n - 1 THEN nx_in ELSE (nx_in \div n) * (i + 1)

\* The worker processes of the pool that have not ended: a process is
\* "starting" until it has run _init_worker, and "alive" from then on.
Running == {k \in DOMAIN procs : procs[k] \in {"starting", "alive", "signalled"}}

\* An exception raised inside the try block of lines 188-202 that is not a
\* KeyboardInterrupt: the finally block runs, and closes and joins the pool
\* if there is one; then the exception reaches line 230.
FailInTry ==
    IF pool = "None"
    THEN /\ pc' = "fallback_warn" /\ exc' = "None"
    ELSE /\ pc' = "fin_close" /\ exc' = "Exception"

\* Lines 183-184: nproc = cpu_count() when no count was given.
ParResolve ==
    /\ pc = "par_resolve"
    /\ IF nproc.isNone
       THEN /\ nproc' = Procs(cpus)
            /\ calls' = [calls EXCEPT !.cpu_count = @ + 1]
       ELSE UNCHANGED <<nproc, calls>>
    /\ pc' = "par_pool"
    /\ UNCHANGED <<inputs, cpus, mapping, accum, legacy, workers, exc, outcome, interrupts>>

\* Lines 187-194: Pool(nproc, _init_worker) starts nproc worker processes, or
\* raises; results = [].  Pool() returns without waiting for the processes
\* to run their initializer.
ParPool ==
    /\ pc = "par_pool"
    /\ \/ /\ pool' = "RUN"
          /\ procs' = [k \in 1 .. nproc.n |-> "starting"]
          /\ calls' = [calls EXCEPT !.pools = @ + 1]
          /\ pc' = "par_dispatch"
          /\ UNCHANGED exc
       \/ /\ FailInTry
          /\ UNCHANGED <<pool, procs, calls>>
    /\ results' = <<>>
    /\ UNCHANGED <<inputs, cpus, nproc, mapping, accum, legacy, fetched, outcome, interrupts>>

\* Mutant of line 196: the loop runs over range(nproc - 1).
ParDispatchOneLess ==
    /\ pc = "par_dispatch"
    /\ LET i == Len(results)
       IN  /\ results' = Append(results, [start |-> PartitionStart(i, nproc.n),
                                          end   |-> PartitionEnd(i, nproc.n),
                                          state |-> "queued"])
           /\ pc' = IF i + 1 >= nproc.n - 1 THEN "par_get" ELSE "par_dispatch"
    /\ UNCHANGED <<inputs, cpus, nproc, mapping, accum, legacy, pool, procs, fetched, exc,
                   outcome, calls, interrupts>>

\* Lines 196-199: one apply_async per iteration of the loop.
ParDispatch ==
    /\ pc = "par_dispatch"
    /\ LET i == Len(results)
       IN  /\ results' = Append(results, [start |-> PartitionStart(i, nproc.n),
                                          end   |-> PartitionEnd(i, nproc.n),
                                          state |-> "queued"])
           /\ pc' = IF i + 1 = nproc.n THEN "par_get" ELSE "par_dispatch"
    /\ UNCHANGED <<inputs, cpus, nproc, mapping, accum, legacy, pool, procs, fetched, exc,
                   outcome, calls, interrupts>>

\* Line 201: the get() of the next result blocks until the task has ended,
\* and returns its value or raises its exception.
ParGet ==
    /\ pc = "par_get"
    /\ fetched < Len(results)
    /\ \/ /\ results[fetched + 1].state = "ok"
          /\ fetched' = fetched + 1
          /\ UNCHANGED <<pc, exc>>
       \/ /\ results[fetched + 1].state = "err"
          /\ FailInTry
          /\ UNCHANGED fetched
    /\ UNCHANGED <<inputs, cpus, nproc, mapping, accum, legacy, pool, procs, results,
                   outcome, calls, interrupts>>

\* Mutant of lines 201-202: the arrays fetched so far are summed before the
\* remaining results have been obtained.
ParMergeEarly ==
    /\ pc = "par_get"
    /\ fetched >= 1
    /\ \/ /\ array_new' = SumArrays(SubSeq(results, 1, fetched), 0)
          /\ weights' = SumArrays(SubSeq(results, 1, fetched), 1)
          /\ pc' = "fin_close"
          /\ UNCHANGED exc
       \/ /\ FailInTry
          /\ UNCHANGED accum
    /\ UNCHANGED <<inputs, cpus, nproc, mapping, legacy, workers, outcome, calls, interrupts>>

\* Lines 201-202: the sums of the fetched arrays, which may raise; then the
\* finally block.
ParMerge ==
    /\ pc = "par_get"
    /\ fetched = Len(results)
    /\ \/ /\ array_new' = SumArrays(results, 0)
          /\ weights' = SumArrays(results, 1)
          /\ pc' = "fin_close"
          /\ UNCHANGED exc
       \/ /\ FailInTry
          /\ UNCHANGED accum
    /\ UNCHANGED <<inputs, cpus, nproc, mapping, legacy, workers, outcome, calls, interrupts>>

\* Mutant of line 210: the handler closes the pool instead of terminating it.
KiTerminateCloses ==
    /\ pc = "ki_terminate"
    /\ pool' = "CLOSE"
    /\ pc' = "ki_join"
    /\ UNCHANGED <<inputs, cpus, nproc, mapping, accum, legacy, procs, results, fetched, exc,
                   outcome, calls, interrupts>>

\* Line 210: pool.terminate() signals every worker process.
KiTerminate ==
    /\ pc = "ki_terminate"
    /\ pool' = "TERMINATE"
    /\ procs' = [k \in DOMAIN procs |->
                    IF procs[k] \in {"starting", "alive"} THEN "signalled" ELSE procs[k]]
    /\ pc' = "ki_join"
    /\ UNCHANGED <<inputs, cpus, nproc, mapping, accum, legacy, results, fetched, exc,
                   outcome, calls, interrupts>>

\* Lines 211-213: pool.join() returns when every worker process has ended;
\* pool = None; raise.  The finally block finds no pool and line 229 re-raises.
KiJoin ==
    /\ pc = "ki_join"
    /\ Running = {}
    /\ pool' = "None"
    /\ Raise("KeyboardInterrupt")
    /\ UNCHANGED <<inputs, cpus, nproc, mapping, accum, legacy, procs, results, fetched,
                   exc, ret, warned, calls, interrupts>>

\* Mutant of line 218: the finally block terminates the pool instead of
\* closing it.
FinCloseTerminates ==
    /\ pc = "fin_close"
    /\ pool' = "TERMINATE"
    /\ procs' = [k \in DOMAIN procs |->
                    IF procs[k] \in {"starting", "alive"} THEN "signalled" ELSE procs[k]]
    /\ pc' = "fin_join"
    /\ UNCHANGED <<inputs, cpus, nproc, mapping, accum, legacy, results, fetched,
                   exc, outcome, calls, interrupts>>

\* Mutant of line 218: the finally block joins the pool without closing it.
FinCloseSkipped ==
    /\ pc = "fin_close"
    /\ pc' = "fin_join"
    /\ UNCHANGED <<inputs, cpus, nproc, mapping, accum, legacy, workers,
                   exc, outcome, calls, interrupts>>

\* Line 218: pool.close() lets the workers exit once their tasks are done; it
\* does nothing to a terminated pool.
FinClose ==
    /\ pc = "fin_close"
    /\ pool' = IF pool = "RUN" THEN "CLOSE" ELSE pool
    /\ pc' = "fin_join"
    /\ UNCHANGED <<inputs, cpus, nproc, mapping, accum, legacy, procs, results, fetched,
                   exc, outcome, calls, interrupts>>

\* Mutant of lines 226-233: an exception of the parallel implementation is
\* not handled, and reaches the caller.
FinJoinNoFallback ==
    /\ pc = "fin_join"
    /\ Running = {}
    /\ \/ /\ exc = "None"
          /\ pc' = "par_return"
          /\ UNCHANGED raised
       \/ /\ exc = "Exception"
          /\ raised' = "Exception: parallel"
          /\ pc' = "Error"
       \/ /\ exc = "KeyboardInterrupt"
          /\ raised' = "KeyboardInterrupt"
          /\ pc' = "Cancelled"
    /\ exc' = "None"
    /\ UNCHANGED <<inputs, cpus, nproc, mapping, accum, legacy, workers, ret, warned,
                   calls, interrupts>>

\* Line 219: pool.join() returns when every worker process has ended.  Then
\* the exception in flight, if any, leaves parallel_impl: a KeyboardInterrupt
\* is re-raised by line 229, another exception is handled by line 230.
FinJoin ==
    /\ pc = "fin_join"
    /\ Running = {}
    /\ \/ /\ exc = "None"
          /\ pc' = "par_return"
          /\ UNCHANGED raised
       \/ /\ exc = "Exception"
          /\ pc' = "fallback_warn"
          /\ UNCHANGED raised
       \/ /\ exc = "KeyboardInterrupt"
          /\ Raise("KeyboardInterrupt")
    /\ exc' = "None"
    /\ UNCHANGED <<inputs, cpus, nproc, mapping, accum, legacy, workers, ret, warned,
                   calls, interrupts>>

\* Line 221: return array_new / weights, weights
ParReturn ==
    /\ pc = "par_return"
    /\ ret' = <<Normalize(array_new, weights), weights>>
    /\ pc' = "Done"
    /\ UNCHANGED <<inputs, cpus, nproc, mapping, accum, legacy, workers, exc, raised,
                   warned, calls, interrupts>>

\* Lines 230-232: the two warnings of the fallback.
FallbackWarn ==
    /\ pc = "fallback_warn"
    /\ warned' = warned + 2
    /\ pc' = "fallback_serial"
    /\ UNCHANGED <<inputs, cpus, nproc, mapping, accum, legacy, workers, exc, ret, raised,
                   calls, interrupts>>

\* ------------------------------------------------- worker processes ----
\* Lines 19-21: worker k runs _init_worker, its first call: from then on it
\* ignores SIGINT.
WorkerInit(k) ==
    /\ procs[k] = "starting"
    /\ procs' = [procs EXCEPT ![k] = "alive"]
    /\ UNCHANGED <<inputs, cpus, pc, nproc, mapping, accum, legacy, pool, results, fetched,
                   exc, outcome, calls, interrupts>>

\* Worker k takes the k-th task from the queue and calls the kernel.
WorkerTake(k) ==
    /\ pool \in {"RUN", "CLOSE"}
    /\ procs[k] = "alive"
    /\ k <= Len(results) /\ results[k].state = "queued"
    /\ results' = [results EXCEPT ![k].state = "running"]
    /\ calls' = [calls EXCEPT !.kernel = @ + 1]
    /\ UNCHANGED <<inputs, cpus, pc, nproc, mapping, accum, legacy, pool, procs, fetched,
                   exc, outcome, interrupts>>

\* The kernel call of worker k returns, or raises.
WorkerFinish(k) ==
    /\ procs[k] = "alive"
    /\ k <= Len(results) /\ results[k].state = "running"
    /\ \/ results' = [results EXCEPT ![k].state = "ok"]
       \/ results' = [results EXCEPT ![k].state = "err"]
    /\ UNCHANGED <<inputs, cpus, pc, nproc, mapping, accum, legacy, pool, procs, fetched,
                   exc, outcome, calls, interrupts>>

\* A worker of a closed pool exits when it has no task left.
WorkerExit(k) ==
    /\ pool = "CLOSE"
    /\ procs[k] = "alive"
    /\ IF k <= Len(results) THEN results[k].state \in {"ok", "err"} ELSE TRUE
    /\ procs' = [procs EXCEPT ![k] = "exited"]
    /\ UNCHANGED <<inputs, cpus, pc, nproc, mapping, accum, legacy, pool, results, fetched,
                   exc, outcome, calls, interrupts>>

\* A signalled worker process ends.
WorkerDie(k) ==
    /\ procs[k] = "signalled"
    /\ procs' = [procs EXCEPT ![k] = "terminated"]
    /\ UNCHANGED <<inputs, cpus, pc, nproc, mapping, accum, legacy, pool, results, fetched,
                   exc, outcome, calls, interrupts>>

\* -------------------------------------------------------- environment ----
\* The number of CPUs of the machine, read by cpu_count(), is whatever it is
\* when it is read; it is varied only for a request that reads it.
CpuChange ==
    /\ pc \in {"validate", "naxis", "mapper", "select"}
    /\ parallel = PyBool(TRUE) /\ method = "c"
    /\ \E n \in 1 .. MaxProc : n # cpus /\ cpus' = n
    /\ UNCHANGED <<inputs, pc, nproc, mapping, accum, legacy, workers, exc, outcome,
                   calls, interrupts>>

\* Ctrl+C: a KeyboardInterrupt raised in the main process at its current
\* position.  The signal goes to the main process alone or to its whole
\* process group; a worker that has not yet run _init_worker still has the
\* handler it inherited, and ends with a KeyboardInterrupt of its own.
InTry     == {"par_pool", "par_dispatch", "par_get"}
InHandler == {"ki_terminate", "ki_join"}
InFinally == {"fin_close", "fin_join"}
Outside   == {"par_resolve", "par_return", "fallback_warn", "fallback_serial", "serial"}

Interrupt ==
    /\ Len(interrupts) < MaxInterrupts
    /\ interrupts' = Append(interrupts, pc)
    /\ \/ \* lines 204-213 catch it; without a pool they re-raise at once
          /\ pc \in InTry /\ pool # "None"
          /\ pc' = "ki_terminate"
          /\ UNCHANGED <<raised, exc>>
       \/ /\ pc \in InTry /\ pool = "None"
          /\ Raise("KeyboardInterrupt")
          /\ UNCHANGED exc
       \/ \* raised inside the handler: the finally block runs with the pool
          /\ pc \in InHandler
          /\ pc' = "fin_close"
          /\ exc' = "KeyboardInterrupt"
          /\ UNCHANGED raised
       \/ \* raised inside the finally block, or outside the try statement
          /\ pc \in InFinally \cup Outside
          /\ Raise("KeyboardInterrupt")
          /\ exc' = "None"
    /\ \E group \in BOOLEAN :
          procs' = [k \in DOMAIN procs |->
                      IF group /\ procs[k] = "starting" THEN "interrupted" ELSE procs[k]]
    /\ UNCHANGED <<inputs, cpus, nproc, mapping, accum, legacy, pool, results, fetched,
                   ret, warned, calls>>

Next ==
    \/ Validate \/ CheckNaxis \/ Mapper \/ Select
    \/ LegacyStep \/ LegacyReturn
    \/ serial_impl
    \/ ParResolve \/ ParPool \/ ParDispatch \/ ParGet \/ ParMerge
    \/ KiTerminate \/ KiJoin \/ FinClose \/ FinJoin \/ ParReturn
    \/ FallbackWarn
    \/ \E k \in DOMAIN procs :
          WorkerInit(k) \/ WorkerTake(k) \/ WorkerFinish(k) \/ WorkerExit(k) \/ WorkerDie(k)
    \/ CpuChange
    \/ Interrupt

Spec == Init /\ [][Next]_vars

\* The steps of a request that selects the legacy loops.
NextKernel == Validate \/ CheckNaxis \/ Mapper \/ Select \/ LegacyStep \/ LegacyReturn

SpecKernel == InitKernel /\ [][NextKernel]_vars

\* The requests of the termination model: the scene whose source grid is the
\* destination grid and the 3-dimensional one, with MaxCols columns, under
\* every parallel flag and method.
InitFair ==
    /\ \E sc \in {t \in Scenes : t.wcs = OutWcs \/ t.wcs.naxis # SupportedNaxis} :
          /\ array = Image(sc.ny, MaxCols)
          /\ wcs_in = sc.wcs
          /\ shape_out = sc.shape
    /\ wcs_out = OutWcs
    /\ parallel \in ParallelArgs
    /\ method \in Methods
    /\ InitState

\* A step of the main process: the interpreter keeps running the statement
\* at its position, and every kernel call returns or raises.
MainStep ==
    \/ Validate \/ CheckNaxis \/ Mapper \/ Select
    \/ LegacyStep \/ LegacyReturn
    \/ serial_impl
    \/ ParResolve \/ ParPool \/ ParDispatch \/ ParGet \/ ParMerge
    \/ KiTerminate \/ KiJoin \/ FinClose \/ FinJoin \/ ParReturn
    \/ FallbackWarn

\* A step of worker process k: it is scheduled, its task returns or raises,
\* and a signalled process ends.
WorkerStep(k) ==
    /\ k \in DOMAIN procs
    /\ WorkerInit(k) \/ WorkerTake(k) \/ WorkerFinish(k) \/ WorkerExit(k) \/ WorkerDie(k)

\* Nothing obliges an interrupt to arrive or the number of CPUs to change.
SpecFair == InitFair /\ [][Next]_vars /\ WF_vars(MainStep)
                     /\ \A k \in 1 .. MaxProc : WF_vars(WorkerStep(k))

\* =============================================================== claims ====
\* What a serial request on the same input returns.
SerialResult ==
    LET k == reproject_slice_cython(0, nx_in)
    IN  <<Normalize(k.array_new, k.weights), k.weights>>

\* All the tasks of the request have been dispatched.
Dispatched == ~nproc.isNone /\ Len(results) = nproc.n

\* The dispatch loop has just ended: no task has been taken yet.
JustDispatched ==
    /\ Dispatched /\ pc = "par_get" /\ fetched = 0
    /\ \A k \in 1 .. Len(results) : results[k].state = "queued"

\* C1 (partition invariance): whatever the number of processes, the
\* elementwise sum of the accumulator pairs of the dispatched column ranges is
\* the accumulator pair of the one kernel call over [0, nx_in); the merged
\* accumulators of the parallel path are that pair; and every result returned
\* by the compiled method, with 1, 2 or more processes, is the result of the
\* serial call.
C1_PartitionInvariance ==
    /\ JustDispatched =>
          LET k == reproject_slice_cython(0, nx_in)
          IN  /\ SumArrays(results, 0) = k.array_new
              /\ SumArrays(results, 1) = k.weights
    /\ pc = "par_return" =>
          LET k == reproject_slice_cython(0, nx_in)
          IN  /\ array_new = k.array_new
              /\ weights = k.weights
    /\ (pc = "Done" /\ method = "c") => ret = SerialResult

\* A parallel request of 2 processes over 3 columns (the last task takes the
\* remainder) has returned a result that covers some destination pixel.
C1_Witness ==
    /\ pc = "Done" /\ calls.pools = 1 /\ warned = 0
    /\ nproc.n = 2 /\ nx_in = 3
    /\ \E d \in DestIdx : weights[d] > 0

\* C2 (partitions): the dispatched ranges start at 0, each starts where the
\* one before ends, none is reversed, the last ends at nx_in, and once all are
\* dispatched every source column lies in exactly one of them; also with more
\* processes than columns.
C2_PartitionsCover ==
    /\ \A k \in 1 .. Len(results) :
          /\ results[k].start <= results[k].end
          /\ k = 1 => results[k].start = 0
          /\ k > 1 => results[k].start = results[k - 1].end
    /\ Dispatched =>
          /\ results[Len(results)].end = nx_in
          /\ \A col \in 0 .. nx_in - 1 :
                Cardinality({k \in 1 .. Len(results) :
                                results[k].start <= col /\ col < results[k].end}) = 1

\* 3 tasks have been dispatched for 2 columns.
C2_Witness ==
    /\ pc = "par_get" /\ Dispatched
    /\ nproc.n = 3 /\ nx_in = 2

\* C3 (cancellation while waiting): when the one KeyboardInterrupt of a
\* request arrives while the main process waits in get(), the handler runs
\* next; by the time terminate() has returned every worker is signalled or
\* ended; the request ends only after every worker has been terminated, and
\* ends Cancelled with the KeyboardInterrupt; no warning is logged, the serial
\* implementation is not called and nothing is returned.
C3_CancelWhileWaiting ==
    interrupts = <<"par_get">> =>
        /\ pc \in {"ki_terminate", "ki_join", "Cancelled"}
        /\ pc = "ki_terminate" => pool = "RUN"
        /\ pc = "ki_join" =>
              /\ pool = "TERMINATE"
              /\ \A k \in DOMAIN procs :
                    procs[k] \in {"signalled", "terminated", "interrupted"}
        /\ pc = "Cancelled" =>
              /\ raised = "KeyboardInterrupt"
              /\ pool = "None"
              /\ \A k \in DOMAIN procs : procs[k] \in {"terminated", "interrupted"}
        /\ ret = <<>> /\ warned = 0 /\ calls.serial = 0

\* A request interrupted in get() while a task was running has ended
\* Cancelled.
C3_Witness ==
    /\ interrupts = <<"par_get">>
    /\ pc = "Cancelled"
    /\ Len(procs) >= 2
    /\ \E k \in 1 .. Len(results) : results[k].state = "running"

\* C4 (fallback): a failure of the parallel implementation that is not a
\* KeyboardInterrupt (the Pool cannot be created, a task raises, the merge
\* raises) never ends the request: it is in flight through the finally block
\* with no exception raised to the caller, the warnings are logged before the
\* serial implementation starts, the only exception that can then end the
\* request in Error is one raised by the serial implementation itself, and a
\* request that returns after the warnings returns the serial result.
C4_FallbackToSerial ==
    /\ exc = "Exception" => (pc \in {"fin_close", "fin_join"} /\ raised = "None")
    /\ pc = "fallback_serial" => (warned = 2 /\ raised = "None" /\ calls.serial = 0)
    /\ (pc = "Error" /\ (calls.cpu_count > 0 \/ calls.pools > 0 \/ warned > 0)) =>
          (raised = "Exception: serial" /\ warned = 2 /\ calls.serial = 1)
    /\ (pc = "Done" /\ warned > 0) =>
          (ret = SerialResult /\ raised = "None" /\ warned = 2 /\ calls.serial = 1)

\* A request one of whose tasks raised has returned a result that covers some
\* destination pixel.
C4_Witness ==
    /\ pc = "Done" /\ warned = 2 /\ calls.pools = 1
    /\ \E k \in 1 .. Len(results) : results[k].state = "err"
    /\ \E d \in DestIdx : weights[d] > 0

\* C5 (pool released on every exit), as claimed: whenever a request that
\* created a pool has ended, no worker process of the pool is running.
C5_NoOrphanedWorkers ==
    (pc \in Terminal /\ calls.pools > 0) => Running = {}

\* The source pixels, and the one the legacy loops processed last.
SrcPixels == (0 .. ny_in - 1) \X (0 .. nx_in - 1)
LastPixel == <<(lpos - 1) % ny_in, (lpos - 1) \div ny_in>>

\* The destination grid as one quadrilateral in world coordinates, the area
\* of the part of source pixel p inside it, and the area of p.
GridQuadX == << xw_out[<<ny_out, 0>>], xw_out[<<ny_out, nx_out>>],
                xw_out[<<0, nx_out>>], xw_out[<<0, 0>>] >>
GridQuadY == << yw_out[<<ny_out, 0>>], yw_out[<<ny_out, nx_out>>],
                yw_out[<<0, nx_out>>], yw_out[<<0, 0>>] >>
InsideArea(p) ==
    compute_overlap(Quad(xw_in, p[1], p[2]), Quad(yw_in, p[1], p[2]), GridQuadX, GridQuadY)
SourceArea(p) ==
    compute_overlap(Quad(xw_in, p[1], p[2]), Quad(yw_in, p[1], p[2]),
                    Quad(xw_in, p[1], p[2]), Quad(yw_in, p[1], p[2]))

Covered(d) == \E p \in SrcPixels : Overlap(p[1], p[2], d) > 0

\* C7 (returned pair): every returned pair, on the legacy, serial, parallel
\* and fallback paths, is (array_new / weights elementwise, weights) for the
\* final accumulators; a destination pixel is covered by some source pixel
\* exactly when its footprint is positive; an uncovered pixel has footprint 0
\* and the undefined value nan, never the number 0; so a destination outside
\* the source has an all-zero footprint and an all-nan image.
C7_ReturnedPair ==
    pc = "Done" =>
        /\ ret = <<Normalize(array_new, weights), weights>>
        /\ \A d \in DestIdx :
              /\ Covered(d) <=> ret[2][d] > 0
              /\ ~Covered(d) => (ret[2][d] = 0 /\ ret[1][d] = <<"nan", 0, 0>>)
              /\ Covered(d) => ret[1][d][1] = "num"
        /\ (\A d \in DestIdx : ~Covered(d)) =>
              /\ ret[2] = [d \in DestIdx |-> 0]
              /\ ret[1] = [d \in DestIdx |-> <<"nan", 0, 0>>]

\* A parallel request has returned a pair in which one destination pixel is
\* covered and another is not.
C7_Witness ==
    /\ pc = "Done" /\ calls.pools = 1 /\ warned = 0
    /\ \E d \in DestIdx : Covered(d)
    /\ \E d \in DestIdx : ~Covered(d) /\ ret[1][d] = <<"nan", 0, 0>>

\* The checks of lines 56, 61 and 74 pass for the request.
ValidArgs ==
    /\ parallel.type = "bool" \/ (parallel.type = "int" /\ parallel.val > 0)
    /\ wcs_in.naxis = SupportedNaxis

\* C8 (validation first): a parallel argument that is neither a bool nor an
\* int ends the request with a TypeError, and an int <= 0 with a ValueError,
\* as its first step: nothing has been invoked (no Frame Bridge transform, no
\* frame conversion, no kernel call, no cpu_count, no pool) and no corner
\* mapping exists.
C8_ValidationFirst ==
    /\ (parallel.type \notin {"bool", "int"} /\ pc # "validate") =>
          (pc = "Error" /\ raised = "TypeError" /\ calls = NoCalls /\ xp_inout = <<>>)
    /\ (parallel.type = "int" /\ parallel.val <= 0 /\ pc # "validate") =>
          (pc = "Error" /\ raised = "ValueError: nproc" /\ calls = NoCalls /\ xp_inout = <<>>)
    /\ raised \in {"TypeError", "ValueError: nproc"} => (calls = NoCalls /\ procs = <<>>)

\* The request with parallel = 0 has ended with the ValueError.
C8_Witness ==
    /\ parallel = PyInt(0)
    /\ pc = "Error" /\ raised = "ValueError: nproc"

\* nproc == 1 at line 176: parallel is False or the integer 1.
SerialRequested == parallel = PyBool(FALSE) \/ parallel = PyInt(1)

\* C9 (execution mode, for the compiled method): the serial path is taken
\* exactly when parallel is False or 1, makes exactly one kernel call and
\* creates no pool; for an integer n > 1 the pool has n workers and n tasks
\* are dispatched; for True the number of workers is the number of CPUs read
\* by cpu_count() inside parallel_impl, after the corner mapping.
C9_ModeSelection ==
    (method = "c" /\ ValidArgs /\ pc \notin {"validate", "naxis", "mapper", "select"}) =>
        /\ SerialRequested =>
              /\ pc \in {"serial", "Done", "Error", "Cancelled"}
              /\ calls.pools = 0 /\ procs = <<>> /\ calls.cpu_count = 0
              /\ calls.kernel = calls.serial /\ calls.serial <= 1
              /\ pc = "serial" => calls.serial = 0
              /\ pc \in {"Done", "Error"} => calls.kernel = 1
        /\ ~SerialRequested =>
              /\ pc # "serial"
              /\ nproc.isNone =>
                    (parallel = PyBool(TRUE) /\ pc \in {"par_resolve", "Cancelled"}
                        /\ calls.pools = 0)
              /\ parallel.type = "int" => (nproc.isNone \/ nproc.n = parallel.val)
              /\ parallel.type = "bool" => (nproc.isNone \/ nproc.n = cpus)
              /\ calls.cpu_count = (IF parallel.type = "bool" /\ ~nproc.isNone THEN 1 ELSE 0)
              /\ calls.cpu_count > 0 => calls.bridge = 3
              /\ calls.pools <= 1
              /\ calls.pools = 1 => Len(procs) = nproc.n
              /\ Len(results) <= Len(procs)
              /\ pc \in {"par_get", "par_return"} => Len(results) = nproc.n
              /\ (pc = "Done" /\ warned = 0) => (calls.kernel = nproc.n /\ calls.serial = 0)

\* A request with parallel = True has dispatched its tasks on a machine whose
\* number of CPUs changed to 2 after the request had started.
C9_Witness ==
    /\ method = "c" /\ parallel = PyBool(TRUE)
    /\ pc = "par_get" /\ cpus = 2 /\ Len(results) = 2 /\ Len(procs) = 2

\* C10 (configuration errors), as claimed: an unrecognized method and a
\* projection that is not 2-dimensional end the request in an error before
\* any Frame Bridge transform, frame conversion, kernel call or pool.
C10_ErrorsBeforeAnyWork ==
    raised \in {"ValueError: method", "NotImplementedError"} =>
        (calls.bridge = 0 /\ calls.convert = 0 /\ calls.kernel = 0 /\ calls.pools = 0)

\* C10, amended: a projection that is not 2-dimensional ends the request with
\* a NotImplementedError right after the check of the parallel flag, before
\* anything is invoked; an unrecognized method ends every otherwise valid
\* request with a ValueError that is raised only after the whole corner
\* mapping has been computed (3 Frame Bridge transforms and the frame
\* conversion), but before any kernel call, cpu_count or pool.
C10_ErrorsAmended ==
    /\ raised = "NotImplementedError" =>
          (pc = "Error" /\ calls = NoCalls /\ xp_inout = <<>>)
    /\ (wcs_in.naxis # SupportedNaxis /\ pc \notin {"validate", "naxis"}) =>
          (pc = "Error" /\ raised \in {"TypeError", "ValueError: nproc", "NotImplementedError"})
    /\ raised = "ValueError: method" =>
          /\ pc = "Error"
          /\ calls = [NoCalls EXCEPT !.bridge = 3, !.convert = 1]
          /\ xp_inout = MapXpInout /\ yp_inout = MapYpInout
          /\ procs = <<>>
    /\ (method \notin {"c", "legacy"} /\ ValidArgs
            /\ pc \notin {"validate", "naxis", "mapper", "select"}) =>
          (pc = "Error" /\ raised = "ValueError: method")

\* A request with an unrecognized method has ended with the ValueError after
\* the corner mapping was computed.
C10_Witness ==
    /\ method = "python"
    /\ pc = "Error" /\ raised = "ValueError: method"
    /\ calls.bridge = 3 /\ calls.convert = 1

\* The source and the destination have the same projection and the same shape.
Identity == wcs_in = wcs_out /\ array.shape = shape_out

\* C11 (identity reprojection): when the source and the destination share the
\* projection and the shape, the mapping of lines 83-111 puts every source
\* corner at its own position in the pixel space of the destination, the
\* overlap of source pixel p with destination pixel q is the whole pixel when
\* p = q and nothing otherwise, and every returned pair, on the legacy,
\* serial, parallel and fallback paths, is the source image with a footprint
\* of 1 at every pixel.
C11_Identity ==
    Identity =>
        /\ pc = "select" =>
              /\ \A c \in SrcCorners :
                    xp_inout[c] = CornerPos(c[2]) /\ yp_inout[c] = CornerPos(c[1])
              /\ \A p \in SrcPixels, q \in DestIdx :
                    WeightTerm(p[1], p[2], q) = (IF p = q THEN FracUnit ELSE 0)
        /\ pc = "Done" =>
              \A d \in DestIdx :
                  /\ ret[1][d] = <<"num", array.data[d], 1>>
                  /\ ret[2][d] = FracUnit

\* An identity request of 2 x 2 pixels has returned from a pool of 2
\* processes.
C11_Witness ==
    /\ Identity /\ pc = "Done" /\ nx_in = 2 /\ ny_in = 2
    /\ calls.pools = 1 /\ nproc.n = 2 /\ warned = 0

\* C12 (bounding-box rounding), as claimed: for every source pixel the loops
\* have processed, wherever its four corners lie in the pixel space of the
\* destination, the unclipped bounds are floor(min corner + 0.5) and
\* floor(max corner + 0.5) on each axis.
C12_BoundsAreFloor ==
    (pc = "legacy_loop" /\ lpos > 0) =>
        LET j == LastPixel[1]
            i == LastPixel[2]
            b == LegacyBounds(j, i)
        IN  /\ b.xmin = FloorHalf(Min4(Quad(xp_inout, j, i)) + 1)
            /\ b.xmax = FloorHalf(Max4(Quad(xp_inout, j, i)) + 1)
            /\ b.ymin = FloorHalf(Min4(Quad(yp_inout, j, i)) + 1)
            /\ b.ymax = FloorHalf(Max4(Quad(yp_inout, j, i)) + 1)

\* C13 (updates stay inside the bounding box), as claimed: the destination
\* pixels for which the loops ran the overlap primitive and updated the
\* accumulators while processing a source pixel lie in the destination grid
\* and inside the box floor(min corner + 0.5) .. floor(max corner + 0.5) of
\* that source pixel; when that box clipped to the grid is empty there are
\* none.
C13_UpdatesInsideBox ==
    (pc = "legacy_loop" /\ lpos > 0) =>
        LET box == SliceBounds(LastPixel[1], LastPixel[2])
        IN  /\ touched \subseteq DestIdx
            /\ \A d \in touched : /\ box.ymin <= d[1] /\ d[1] <= box.ymax
                                   /\ box.xmin <= d[2] /\ d[2] <= box.xmax
            /\ Candidates(ClipBounds(box)) = {} => (touched = {} /\ added = 0)

\* Every dispatched task has ended well and its result has been fetched.
AllFetched ==
    /\ Dispatched /\ fetched = Len(results)
    /\ \A k \in 1 .. Len(results) : results[k].state = "ok"

\* C14 (join barrier): on the parallel path the accumulators hold a sum of
\* worker results only when every task has been dispatched, has ended well
\* and has been fetched, and then they hold the sum of all of them; nothing
\* is normalized before that; when a result failed, the fallback starts from
\* accumulators that hold nothing, and what is returned afterwards is the
\* result of the serial call alone.
C14_JoinBarrier ==
    (method = "c" /\ calls.pools > 0) =>
        /\ (array_new # <<>> /\ calls.serial = 0) =>
              /\ AllFetched
              /\ array_new = SumArrays(results, 0)
              /\ weights = SumArrays(results, 1)
        /\ (ret # <<>> /\ calls.serial = 0) => (AllFetched /\ pc = "Done")
        /\ ~AllFetched =>
              /\ pc \notin {"par_return"}
              /\ pc \in {"fin_close", "fin_join", "fallback_warn", "fallback_serial"} =>
                    (array_new = <<>> /\ weights = <<>> /\ ret = <<>>)
              /\ pc = "Done" => (calls.serial = 1 /\ ret = SerialResult)

\* The second of two or more results failed after the first had been fetched,
\* and the fallback is about to start.
C14_Witness ==
    /\ pc = "fallback_serial" /\ calls.pools = 1
    /\ fetched >= 1 /\ fetched < Len(results)
    /\ results[fetched].state = "ok" /\ results[fetched + 1].state = "err"

\* C15 (worker isolation), as claimed: a worker runs a kernel task only after
\* it has run _init_worker; no worker ever ends by reacting to the interrupt
\* itself, whenever the interrupt arrives; a worker that has ended has exited
\* from a closed pool with its task done, or was terminated by the main
\* process.
C15_WorkerIsolation ==
    \A k \in DOMAIN procs :
        /\ (k <= Len(results) /\ results[k].state # "queued") => procs[k] # "starting"
        /\ procs[k] # "interrupted"
        /\ procs[k] = "exited" =>
              (k <= Len(results) => results[k].state \in {"ok", "err"})
        /\ procs[k] \in {"signalled", "terminated"} => pool \in {"TERMINATE", "None"}

\* The number of columns of the k-th dispatched task.
PartitionSize(k) == results[k].end - results[k].start

\* C16 (partition sizes): never more than nproc tasks are dispatched, and
\* exactly nproc once the dispatch loop has ended; each of the first nproc-1
\* has nx_in \div nproc columns and the last has the rest, which is no fewer;
\* with more processes than columns the first nproc-1 are empty; a parallel
\* request that returns without fallback has made exactly nproc kernel calls.
C16_PartitionSizes ==
    /\ Len(results) > 0 =>
          /\ ~nproc.isNone /\ Len(results) <= nproc.n
          /\ \A k \in 1 .. Len(results) :
                /\ k < nproc.n => PartitionSize(k) = nx_in \div nproc.n
                /\ k = nproc.n =>
                      /\ PartitionSize(k) = nx_in - (nproc.n - 1) * (nx_in \div nproc.n)
                      /\ PartitionSize(k) >= nx_in \div nproc.n
                      /\ PartitionSize(k) < nx_in \div nproc.n + nproc.n
                /\ (nproc.n > nx_in /\ k < nproc.n) => PartitionSize(k) = 0
    /\ pc \in {"par_get", "par_return"} => Len(results) = nproc.n
    /\ (pc = "Done" /\ calls.pools > 0 /\ warned = 0) =>
          (Len(results) = nproc.n /\ calls.kernel = nproc.n)

\* 2 tasks have been dispatched for 3 columns: one column, then two.
C16_Witness ==
    /\ pc = "par_get" /\ Dispatched
    /\ nproc.n = 2 /\ nx_in = 3
    /\ PartitionSize(1) = 1 /\ PartitionSize(2) = 2

\* C17 (one fallback, the last attempt): a request warns once (two lines),
\* creates at most one pool and calls the serial implementation at most once;
\* once the warnings are logged it is at the serial call or has ended; when
\* the serial call made as the fallback has been made the request has ended,
\* Done or in Error with the exception of the serial call; a
\* KeyboardInterrupt that arrives at the serial call of the fallback ends the
\* request Cancelled, with no serial call made and nothing returned.
C17_FallbackIsLast ==
    /\ calls.serial <= 1 /\ calls.pools <= 1 /\ warned \in {0, 2}
    /\ warned > 0 => pc \in {"fallback_serial", "Done", "Error", "Cancelled"}
    /\ (warned > 0 /\ calls.serial = 1) =>
          /\ pc \in {"Done", "Error"}
          /\ pc = "Error" => (raised = "Exception: serial" /\ ret = <<>>)
    /\ (\E n \in 1 .. Len(interrupts) : interrupts[n] = "fallback_serial") =>
          /\ pc = "Cancelled" /\ raised = "KeyboardInterrupt"
          /\ ret = <<>> /\ calls.serial = 0 /\ warned = 2

\* The serial call made after a failed worker task has failed too.
C17_Witness ==
    /\ pc = "Error" /\ raised = "Exception: serial"
    /\ warned = 2 /\ calls.serial = 1 /\ calls.pools = 1
    /\ \E k \in 1 .. Len(results) : results[k].state = "err"

\* C18 (close and join before the fallback): while an exception of the
\* parallel implementation that is not a KeyboardInterrupt is in flight, the
\* pool is running or closed and no worker has been signalled or terminated;
\* from the warnings of the fallback on, no worker of the pool is running:
\* the pool is closed, every worker has exited by itself and every dispatched
\* task has ended.
C18_CloseJoinBeforeFallback ==
    /\ exc = "Exception" =>
          /\ pool \in {"RUN", "CLOSE"}
          /\ pc = "fin_join" => pool = "CLOSE"
          /\ \A k \in DOMAIN procs : procs[k] \in {"starting", "alive", "exited"}
    /\ (pc \in {"fallback_warn", "fallback_serial"} \/ warned > 0) =>
          /\ Running = {}
          /\ calls.pools > 0 =>
                /\ pool = "CLOSE"
                /\ \A k \in DOMAIN procs : procs[k] = "exited"
                /\ \A k \in 1 .. Len(results) : results[k].state \in {"ok", "err"}

\* The first task of a pool of 3 processes has failed, the pool has been
\* closed and joined, and the fallback is about to log its warnings.
C18_Witness ==
    /\ pc = "fallback_warn" /\ pool = "CLOSE"
    /\ Len(procs) = 3 /\ fetched = 0
    /\ results[1].state = "err"

\* C19 (termination): when the main process keeps running, every worker is
\* scheduled, every task returns or raises and every signalled worker ends,
\* every request reaches one of Done, Error and Cancelled and stays there:
\* the main process does not wait forever in get(), in join() or in the
\* fallback.
C19_Terminates ==
    \/ <>[](pc = "Done" /\ ret # <<>> /\ raised = "None")
    \/ <>[](pc = "Error" /\ ret = <<>> /\ raised \notin {"None", "KeyboardInterrupt"})
    \/ <>[](pc = "Cancelled" /\ ret = <<>> /\ raised = "KeyboardInterrupt")

\* A request whose pool of 3 processes failed has waited for the results,
\* closed and joined the pool, and returned from the fallback.
C19_Witness ==
    /\ pc = "Done" /\ warned = 2
    /\ pool = "CLOSE" /\ Len(procs) = 3
    /\ \A k \in DOMAIN procs : procs[k] = "exited"

====
